---- MODULE Spec2Model ----
(***************************************************************************)
(* A model of the EU VAT estimator's core: the Amazon report normaliser    *)
(* (app/parsers/amazon.py) and the VAT calculator (app/vat_calculator.py). *)
(*                                                                         *)
(* A dataset (pandas DataFrame) is a sequence of columns, each a record    *)
(* [name, cells]; two columns may carry the same name, as in pandas.       *)
(* A cell is a record [k, n, s]:                                           *)
(*   k = "num"  a number, n its value in hundredths (19.00 is 1900)        *)
(*   k = "nan"  the float NaN / NaT                                        *)
(*   k = "none" the Python None                                            *)
(*   k = "na"   pandas' pd.NA, with which app._safe_concat fills the columns *)
(*              a batch lacks                                              *)
(*   k = "str"  a string, s its characters (one-character strings)         *)
(*   k = "date" a timestamp, n = 100 * month + day                         *)
(* Text is a tuple of characters so that upper(), strip(), slicing and     *)
(* substring search are computed, not assumed.                             *)
(***************************************************************************)
EXTENDS Integers, Sequences, FiniteSets, TLC

VARIABLES pc, input, result, result2

vars == <<pc, input, result, result2>>

(***************************************************************************)
(* Bounds of the model.                                                    *)
(***************************************************************************)
\* rows of a dataset given to derive_net_gross
DeriveRows == 1

(***************************************************************************)
(* Cells.                                                                  *)
(***************************************************************************)
Num(n) == [k |-> "num", n |-> n, s |-> <<>>]

NaN == [k |-> "nan", n |-> 0, s |-> <<>>]

None == [k |-> "none", n |-> 0, s |-> <<>>]

NA == [k |-> "na", n |-> 0, s |-> <<>>]

Str(s) == [k |-> "str", n |-> 0, s |-> s]

\* a timestamp: n = 100 * month + day
Date(n) == [k |-> "date", n |-> n, s |-> <<>>]

IsNum(c) == c.k = "num"

\* pd.isna
IsNull(c) == c.k \in {"nan", "none", "na"}

(***************************************************************************)
(* Text.                                                                   *)
(***************************************************************************)
Digits == <<"0", "1", "2", "3", "4", "5", "6", "7", "8", "9">>

IsDigit(ch) == \E i \in 1..10 : Digits[i] = ch

DigitVal(ch) == (CHOOSE i \in 1..10 : Digits[i] = ch) - 1

AllDigits(s) == \A i \in 1..Len(s) : IsDigit(s[i])

RECURSIVE NatVal(_)
NatVal(s) == IF s = <<>> THEN 0
             ELSE 10 * NatVal(SubSeq(s, 1, Len(s) - 1)) + DigitVal(s[Len(s)])

\* position of the first "." of s, 0 when there is none
DotPos(s) == IF \E i \in 1..Len(s) : s[i] = "."
             THEN CHOOSE i \in 1..Len(s) : s[i] = "." /\ \A j \in 1..(i - 1) : s[j] # "."
             ELSE 0

\* [0-9]*\.?[0-9]+ matched by the whole of s
IsDecimal(s) ==
    LET d == DotPos(s) IN
    IF d = 0 THEN Len(s) > 0 /\ AllDigits(s)
    ELSE /\ AllDigits(SubSeq(s, 1, d - 1))
         /\ Len(s) > d
         /\ AllDigits(SubSeq(s, d + 1, Len(s)))

\* the value of a decimal numeral in hundredths; the model's numerals carry at most
\* two fraction digits
DecimalVal(s) ==
    LET d == DotPos(s) IN
    IF d = 0 THEN 100 * NatVal(s)
    ELSE LET frac == SubSeq(s, d + 1, Len(s)) IN
         100 * NatVal(SubSeq(s, 1, d - 1))
           + (IF Len(frac) = 1 THEN 10 * NatVal(frac) ELSE NatVal(SubSeq(frac, 1, 2)))

\* pd.to_numeric(errors="coerce") on one cell
ToNumeric(c) ==
    IF c.k = "num" THEN c
    ELSE IF c.k = "str" /\ IsDecimal(c.s) THEN Num(DecimalVal(c.s))
    ELSE IF c.k = "str" /\ Len(c.s) > 1 /\ c.s[1] = "-" /\ IsDecimal(Tail(c.s))
         THEN Num(0 - DecimalVal(Tail(c.s)))
    ELSE NaN

Lowers == <<"a", "b", "c", "d", "e", "f", "g", "h", "i", "j", "k", "l", "m",
            "n", "o", "p", "q", "r", "s", "t", "u", "v", "w", "x", "y", "z">>

Uppers == <<"A", "B", "C", "D", "E", "F", "G", "H", "I", "J", "K", "L", "M",
            "N", "O", "P", "Q", "R", "S", "T", "U", "V", "W", "X", "Y", "Z">>

UpperCh(ch) == IF \E i \in 1..26 : Lowers[i] = ch
               THEN Uppers[CHOOSE i \in 1..26 : Lowers[i] = ch]
               ELSE ch

\* str.upper
Upper(s) == [i \in 1..Len(s) |-> UpperCh(s[i])]

RECURSIVE LStrip(_)
LStrip(s) == IF s # <<>> /\ s[1] = " " THEN LStrip(Tail(s)) ELSE s

RECURSIVE RStrip(_)
RStrip(s) == IF s # <<>> /\ s[Len(s)] = " " THEN RStrip(SubSeq(s, 1, Len(s) - 1)) ELSE s

\* str.strip
Strip(s) == RStrip(LStrip(s))

\* kw in s
Contains(s, kw) ==
    \E i \in 0..(Len(s) - Len(kw)) : SubSeq(s, i + 1, i + Len(kw)) = kw

RECURSIVE NatStr(_)
NatStr(n) == IF n < 10 THEN <<Digits[n + 1]>>
             ELSE NatStr(n \div 10) \o <<Digits[(n % 10) + 1]>>

\* str(float) of a number held in hundredths: 1900 is "19.0", 19 is "0.19"
FloatStr(n) ==
    LET a == IF n < 0 THEN 0 - n ELSE n
        f == a % 100
    IN  (IF n < 0 THEN <<"-">> ELSE <<>>) \o NatStr(a \div 100) \o <<".">>
          \o (IF f % 10 = 0 THEN NatStr(f \div 10) ELSE <<Digits[(f \div 10) + 1]>> \o NatStr(f % 10))

\* Series.astype(str) on one cell of an object or float column: a null becomes the
\* text of its repr, which is what the replace tables of the normaliser ("NAN", "NONE")
\* undo
AsStr(c) ==
    IF c.k = "str" THEN c.s
    ELSE IF c.k = "nan" THEN <<"n", "a", "n">>
    ELSE IF c.k = "none" THEN <<"N", "o", "n", "e">>
    ELSE IF c.k = "na" THEN <<"<", "N", "A", ">">>
    ELSE FloatStr(c.n)

\* the pattern (AMAZON|MARKETPLACE|FACILITATOR|MPF|PLATFORM)
PlatformKw ==
    { <<"A", "M", "A", "Z", "O", "N">>,
      <<"M", "A", "R", "K", "E", "T", "P", "L", "A", "C", "E">>,
      <<"F", "A", "C", "I", "L", "I", "T", "A", "T", "O", "R">>,
      <<"M", "P", "F">>,
      <<"P", "L", "A", "T", "F", "O", "R", "M">> }

\* str.contains(platform_kw, regex=True)
MatchesPlatform(s) == \E kw \in PlatformKw : Contains(s, kw)

\* .astype(str).str.upper().str.strip() on one cell
UpperStripCell(c) == Str(Strip(Upper(AsStr(c))))

(***************************************************************************)
(* Datasets.                                                               *)
(***************************************************************************)
Column(name, cells) == [name |-> name, cells |-> cells]

ColNames(df) == {df[i].name : i \in 1..Len(df)}

\* "name" in df.columns
HasCol(df, name) == name \in ColNames(df)

ColCount(df, name) == Cardinality({i \in 1..Len(df) : df[i].name = name})

ColIdx(df, name) ==
    CHOOSE i \in 1..Len(df) : df[i].name = name /\ \A j \in 1..(i - 1) : df[j].name # name

\* df[name], for a name carried by one column
GetCol(df, name) == df[ColIdx(df, name)].cells

\* df[name] = cells
SetCol(df, name, cells) ==
    IF HasCol(df, name)
    THEN [i \in 1..Len(df) |-> IF df[i].name = name THEN Column(name, cells) ELSE df[i]]
    ELSE Append(df, Column(name, cells))

NRows(df) == IF df = <<>> THEN 0 ELSE Len(df[1].cells)

MapCells(cells, Op(_)) == [i \in 1..Len(cells) |-> Op(cells[i])]

\* the value of a call: a dataset, or the exception it raised
Ok(df) == [err |-> "", df |-> df]

Raise(e) == [err |-> e, df |-> <<>>]

NoResult == Raise("not run")

(***************************************************************************)
(* vat_calculator.derive_net_gross                                         *)
(***************************************************************************)
\* Series + Series, NaN wherever an operand is
Add(a, b) == IF IsNum(a) /\ IsNum(b) THEN Num(a.n + b.n) ELSE NaN

Sub(a, b) == IF IsNum(a) /\ IsNum(b) THEN Num(a.n - b.n) ELSE NaN

\* net * (rate / 100.0)
VatOfNet(net, rate) ==
    IF IsNum(net) /\ IsNum(rate) THEN Num((net.n * rate.n) \div 10000) ELSE NaN

\* gross - (gross / (1.0 + rate / 100.0))
VatOfGross(gross, rate) ==
    IF IsNum(gross) /\ IsNum(rate)
    THEN Num(gross.n - ((gross.n * 10000) \div (10000 + rate.n)))
    ELSE NaN

Zip(xs, ys, Op(_, _)) == [i \in 1..Len(xs) |-> Op(xs[i], ys[i])]

AmountCols == <<"net", "gross", "vat_amount", "rate">>

RECURSIVE CoerceFrom(_, _)
CoerceFrom(df, i) ==
    IF i > Len(AmountCols) THEN df
    ELSE LET col == AmountCols[i] IN
         CoerceFrom(IF HasCol(df, col)
                    THEN SetCol(df, col, MapCells(GetCol(df, col), ToNumeric))
                    ELSE df,
                    i + 1)

CoerceAmounts(df) == CoerceFrom(df, 1)

FillGross(df) ==
    IF ~HasCol(df, "gross") /\ HasCol(df, "net") /\ HasCol(df, "vat_amount")
    THEN SetCol(df, "gross", Zip(GetCol(df, "net"), GetCol(df, "vat_amount"), Add))
    ELSE df

FillNet(df) ==
    IF ~HasCol(df, "net") /\ HasCol(df, "gross") /\ HasCol(df, "vat_amount")
    THEN SetCol(df, "net", Zip(GetCol(df, "gross"), GetCol(df, "vat_amount"), Sub))
    ELSE df

\* the rate step with the preference reversed: gross before net
FillVatFromRateGrossFirst(df) ==
    IF ~HasCol(df, "vat_amount") /\ HasCol(df, "rate")
    THEN IF HasCol(df, "gross")
         THEN SetCol(df, "vat_amount", Zip(GetCol(df, "gross"), GetCol(df, "rate"), VatOfGross))
         ELSE IF HasCol(df, "net")
         THEN SetCol(df, "vat_amount", Zip(GetCol(df, "net"), GetCol(df, "rate"), VatOfNet))
         ELSE df
    ELSE df

FillVatFromRate(df) ==
    IF ~HasCol(df, "vat_amount") /\ HasCol(df, "rate")
    THEN IF HasCol(df, "net")
         THEN SetCol(df, "vat_amount", Zip(GetCol(df, "net"), GetCol(df, "rate"), VatOfNet))
         ELSE IF HasCol(df, "gross")
         THEN SetCol(df, "vat_amount", Zip(GetCol(df, "gross"), GetCol(df, "rate"), VatOfGross))
         ELSE df
    ELSE df

BackfillNet(df) == FillNet(df)

DeriveNetGross(df) == BackfillNet(FillVatFromRate(FillNet(FillGross(CoerceAmounts(df)))))

(***************************************************************************)
(* Inputs of derive_net_gross: every subset of the four columns, every     *)
(* cell null, unparseable, a numeral or a number.  Amounts 25.00, 100.00,  *)
(* 125.00 and rates 0 and 25 percent keep every quotient exact.            *)
(***************************************************************************)
AmountCells == {NaN, Str(<<"x">>), Str(<<"2", "5">>), Num(10000), Num(12500)}

RateCells == {NaN, Num(0), Num(2500)}

\* a column of n rows named name with its cells among dom, or no such column
ColChoices(name, n, dom) ==
    {<<>>} \cup {<<Column(name, cells)>> : cells \in [1..n -> dom]}

\* the cell of a row, NaN when the dataset lacks the column
CellAt(df, name, r) == IF HasCol(df, name) THEN GetCol(df, name)[r] ELSE NaN

Known(df, name, r) == IsNum(ToNumeric(CellAt(df, name, r)))

\* a row that gives net, gross and vat_amount gives them consistently
ConsistentRow(df, r) ==
    (Known(df, "net", r) /\ Known(df, "gross", r) /\ Known(df, "vat_amount", r))
        => ToNumeric(CellAt(df, "gross", r)).n
             = ToNumeric(CellAt(df, "net", r)).n + ToNumeric(CellAt(df, "vat_amount", r)).n

InitDerive ==
    /\ pc = "derive"
    /\ \E n \in 1..DeriveRows :
         \E net \in ColChoices("net", n, AmountCells),
            gross \in ColChoices("gross", n, AmountCells),
            vat \in ColChoices("vat_amount", n, AmountCells),
            rate \in ColChoices("rate", n, RateCells) :
             /\ input = net \o gross \o vat \o rate
             /\ \A r \in 1..n : ConsistentRow(net \o gross \o vat \o rate, r)
    /\ result = NoResult
    /\ result2 = NoResult

Derive ==
    /\ pc = "derive"
    /\ result' = Ok(DeriveNetGross(input))
    /\ pc' = "derived"
    /\ UNCHANGED <<input, result2>>

DeriveAgain ==
    /\ pc = "derived"
    /\ result2' = Ok(DeriveNetGross(result.df))
    /\ pc' = "rederived"
    /\ UNCHANGED <<input, result>>

NextDerive == Derive \/ DeriveAgain

SpecDerive == InitDerive /\ [][NextDerive]_vars

(***************************************************************************)
(* Claims about derive_net_gross.                                          *)
(***************************************************************************)
InNum(name, r) == ToNumeric(CellAt(input, name, r))

OutCell(name, r) == CellAt(result.df, name, r)

\* two of net/gross/vat_amount known, or one of net/gross plus rate known
Derivable(r) ==
    \/ Known(input, "net", r) /\ Known(input, "gross", r)
    \/ Known(input, "net", r) /\ Known(input, "vat_amount", r)
    \/ Known(input, "gross", r) /\ Known(input, "vat_amount", r)
    \/ Known(input, "rate", r) /\ (Known(input, "net", r) \/ Known(input, "gross", r))

AllThree(r) ==
    IsNum(OutCell("net", r)) /\ IsNum(OutCell("gross", r)) /\ IsNum(OutCell("vat_amount", r))

\* C1: after derive_net_gross every row has net, gross and vat_amount populated whenever
\* they are derivable from the row's other fields, and every row with all three known
\* satisfies gross = net + vat_amount; in particular a row with gross null and net and
\* vat_amount given ends with gross = net + vat_amount.
C1_PopulatedWheneverDerivable ==
    pc = "derived" =>
        \A r \in 1..NRows(input) :
            /\ Derivable(r) => AllThree(r)
            /\ AllThree(r) =>
                 OutCell("gross", r).n = OutCell("net", r).n + OutCell("vat_amount", r).n

\* C2: derive_net_gross is idempotent: a second application to its own output changes
\* neither the columns nor any cell.
C2_Idempotent == pc = "rederived" => result2 = result

CountryCols(df) == {i \in 1..Len(df) : df[i].name = "country"}

\* cdf.bfill(axis=1).iloc[:, 0] in one row: the first non-null cell across the columns
\* named country, the first column's null when there is none
FirstCountry(df, r) ==
    LET idx  == CountryCols(df)
        full == {i \in idx : ~IsNull(df[i].cells[r])}
        pick == IF full = {} THEN idx ELSE full
    IN  df[CHOOSE i \in pick : \A j \in pick : i <= j].cells[r]

DropCols(df, name) == SelectSeq(df, LAMBDA c : c.name # name)

DedupeCountry(df) ==
    IF Cardinality(CountryCols(df)) <= 1 THEN df
    ELSE Append(DropCols(df, "country"),
                Column("country", [r \in 1..NRows(df) |-> FirstCountry(df, r)]))

\* the collector step with the normaliser's vat_collector taking precedence over a
\* collector column
SummaryCollectorFromVatCollector(df) ==
    IF HasCol(df, "vat_collector")
    THEN Ok(SetCol(df, "collector", MapCells(GetCol(df, "vat_collector"), UpperStripCell)))
    ELSE IF HasCol(df, "collector")
    THEN Ok(SetCol(df, "collector", MapCells(GetCol(df, "collector"), UpperStripCell)))
    ELSE Raise("AttributeError: 'str' object has no attribute 'astype'")

\* df.get("collector", "") is the string "" when there is no such column, and
\* "".astype raises
SummaryCollector(df) ==
    LET d == IF ~HasCol(df, "collector") /\ HasCol(df, "vat_collector")
             THEN SetCol(df, "collector", GetCol(df, "vat_collector"))
             ELSE df
    IN  IF HasCol(d, "collector")
        THEN Ok(SetCol(d, "collector", MapCells(GetCol(d, "collector"), UpperStripCell)))
        ELSE Raise("AttributeError: 'str' object has no attribute 'astype'")

\* the keys of df.groupby("country", dropna=True)
GroupKeys(df) == {c \in {GetCol(df, "country")[r] : r \in 1..NRows(df)} : ~IsNull(c)}

GroupRows(df, key) == {r \in 1..NRows(df) : GetCol(df, "country")[r] = key}

\* sum(), which skips nulls and is 0 over none
RECURSIVE SumCells(_, _)
SumCells(cells, rows) ==
    IF rows = {} THEN 0
    ELSE LET r == CHOOSE x \in rows : TRUE
         IN  (IF IsNum(cells[r]) THEN cells[r].n ELSE 0) + SumCells(cells, rows \ {r})

\* nunique(), which skips nulls, or size() without an order_id column
Orders(df, rows) ==
    IF HasCol(df, "order_id")
    THEN Cardinality({c \in {GetCol(df, "order_id")[r] : r \in rows} : ~IsNull(c)})
    ELSE Cardinality(rows)

NetSum(df, rows) == IF HasCol(df, "net") THEN SumCells(GetCol(df, "net"), rows) ELSE 0

VatDue(df, rows) == SumCells(GetCol(df, "vat_amount"), rows)

PlatformRows(df, rows) ==
    {r \in rows : MatchesPlatform(Strip(Upper(AsStr(GetCol(df, "collector")[r]))))}

\* the left merge leaves null for a country with no platform row; fillna(0.0)
AmazonCollected(df, rows) == SumCells(GetCol(df, "vat_amount"), PlatformRows(df, rows))

SummaryRow(df, key) ==
    LET rows == GroupRows(df, key) IN
    [country          |-> key,
     orders           |-> Orders(df, rows),
     net              |-> NetSum(df, rows),
     vat_due          |-> VatDue(df, rows),
     amazon_collected |-> AmazonCollected(df, rows),
     vat_to_declare   |-> VatDue(df, rows) - AmazonCollected(df, rows)]

\* the summary before sorting: an exception, or the set of its rows
SummaryGroups(df) ==
    LET d1 == DedupeCountry(df) IN
    IF ~HasCol(d1, "country") THEN Raise("KeyError: country")
    ELSE LET c == SummaryCollector(d1) IN
         IF c.err # "" THEN c
         ELSE IF ~HasCol(c.df, "vat_amount") THEN Raise("KeyError: vat_amount")
         ELSE Ok({SummaryRow(c.df, key) : key \in GroupKeys(c.df)})

\* sort_values("vat_to_declare", ascending=False): every order of the rows that is
\* descending; the default sort is not stable, so ties may come in any order
SortedDesc(rows) ==
    {s \in [1..Cardinality(rows) -> rows] :
        /\ \A i, j \in 1..Cardinality(rows) : i # j => s[i] # s[j]
        /\ \A i, j \in 1..Cardinality(rows) :
             i < j => s[i].vat_to_declare >= s[j].vat_to_declare}

\* the values country_summary can return
CountrySummary(df) ==
    LET g == SummaryGroups(df) IN
    IF g.err # "" THEN {g} ELSE {Ok(s) : s \in SortedDesc(g.df)}

(***************************************************************************)
(* Inputs of country_summary: any of the columns it reads may be absent.   *)
(***************************************************************************)
SummaryRows == 2

S_DE == <<"D", "E">>

S_FR == <<"F", "R">>

CountryCells == {Str(S_DE), Str(S_FR)}

VatCells == {NaN, Num(1000), Num(2000)}

NetCells == {NaN, Num(10000)}

OrderCells == {Str(<<"A">>)}

OrderCellsWide == {NaN, Str(<<"A">>), Str(<<"B">>)}

VatCollectorCells == {Str(<<"A", "M", "A", "Z", "O", "N">>), Str(<<"S", "E", "L", "L", "E", "R">>)}

CollectorCells == {Str(<<" ", "m", "p", "f", " ">>), Str(<<"s", "e", "l", "f">>)}

InitSummary ==
    /\ pc = "summarise"
    /\ \E n \in 1..SummaryRows :
         \E country \in ColChoices("country", n, CountryCells),
            vat \in ColChoices("vat_amount", n, VatCells),
            net \in ColChoices("net", n, NetCells),
            oid \in ColChoices("order_id", n, OrderCells),
            vc \in ColChoices("vat_collector", n, VatCollectorCells),
            coll \in ColChoices("collector", n, CollectorCells) :
             input = country \o vat \o net \o oid \o vc \o coll
    /\ result = NoResult
    /\ result2 = NoResult

Summarise ==
    /\ pc = "summarise"
    /\ result' \in CountrySummary(input)
    /\ pc' = "summarised"
    /\ UNCHANGED <<input, result2>>

NextSummary == Summarise

SpecSummary == InitSummary /\ [][NextSummary]_vars

\* inputs for the order count: the order ids vary, the collector is always given
InitOrders ==
    /\ pc = "summarise"
    /\ \E n \in 1..SummaryRows :
         \E country \in ColChoices("country", n, CountryCells),
            vat \in ColChoices("vat_amount", n, {NaN, Num(1000)}),
            oid \in ColChoices("order_id", n, OrderCellsWide),
            vc \in ColChoices("vat_collector", n, VatCollectorCells) :
             input = country \o vat \o oid \o vc
    /\ result = NoResult
    /\ result2 = NoResult

SpecOrders == InitOrders /\ [][NextSummary]_vars

(***************************************************************************)
(* Claims about country_summary.                                           *)
(***************************************************************************)
Summarised == pc = "summarised" /\ result.err = ""

\* the rows of the input that belong to a jurisdiction
RowsOf(key) == {r \in 1..NRows(input) : CellAt(input, "country", r) = key}

IsPlatform(c) == MatchesPlatform(Strip(Upper(AsStr(c))))

\* C4 as stated: vat_due is the null-safe sum of vat_amount over the jurisdiction's rows,
\* amazon_collected the null-safe sum over exactly the rows whose vat_collector (the
\* Normalizer's classification) matches the platform pattern, 0 when there is none, and
\* vat_to_declare = vat_due - amazon_collected.
C4_CollectedByVatCollector ==
    Summarised =>
        \A i \in 1..Len(result.df) :
            LET s    == result.df[i]
                rows == RowsOf(s.country)
                plat == {r \in rows : HasCol(input, "vat_collector")
                                        /\ IsPlatform(CellAt(input, "vat_collector", r))}
            IN  /\ s.vat_due = SumCells(GetCol(input, "vat_amount"), rows)
                /\ s.amazon_collected = SumCells(GetCol(input, "vat_amount"), plat)
                /\ s.vat_to_declare = s.vat_due - s.amazon_collected

\* C4 amended: as C4, with the rows of amazon_collected being those whose collector
\* value matches the platform pattern, the collector value of a row being that of the
\* dataset's collector column when it has one and of vat_collector otherwise.
C4_CollectedByCollector ==
    Summarised =>
        \A i \in 1..Len(result.df) :
            LET s    == result.df[i]
                rows == RowsOf(s.country)
                src  == IF HasCol(input, "collector") THEN "collector" ELSE "vat_collector"
                plat == {r \in rows : IsPlatform(CellAt(input, src, r))}
            IN  /\ s.vat_due = SumCells(GetCol(input, "vat_amount"), rows)
                /\ s.amazon_collected = SumCells(GetCol(input, "vat_amount"), plat)
                /\ s.vat_to_declare = s.vat_due - s.amazon_collected

\* C4's case: a jurisdiction with a platform-collected row and a seller row, both with
\* a tax amount, classified by vat_collector
C4_Witness ==
    /\ Summarised
    /\ ~HasCol(input, "collector")
    /\ \E i \in 1..Len(result.df) :
         /\ result.df[i].amazon_collected > 0
         /\ result.df[i].vat_to_declare > 0
         /\ result.df[i].vat_due = result.df[i].amazon_collected + result.df[i].vat_to_declare

\* the KeyErrors that name a field absent from the input
MissingFieldErrors ==
    {"KeyError: " \o f : f \in {g \in {"country", "vat_amount"} : ~HasCol(input, g)}}

\* C5: country_summary fails if and only if the country column or the vat_amount column
\* is absent, then with a KeyError naming the absent field; no other absent column makes
\* it fail, and with net absent it reports net = 0 for every jurisdiction.
C5_StrictOnTwoFieldsOnly ==
    pc = "summarised" =>
        /\ (result.err # "") <=> (~HasCol(input, "country") \/ ~HasCol(input, "vat_amount"))
        /\ result.err # "" => result.err \in MissingFieldErrors
        /\ (result.err = "" /\ ~HasCol(input, "net")) =>
             \A i \in 1..Len(result.df) : result.df[i].net = 0

\* C10: orders is the number of distinct order ids among the jurisdiction's rows when an
\* order_id column exists, a row with a null order id still counting as one, and the
\* number of rows of the jurisdiction when there is no order_id column.
C10_OrdersCountsEveryRow ==
    Summarised =>
        \A i \in 1..Len(result.df) :
            LET s    == result.df[i]
                rows == RowsOf(s.country)
                ids  == {CellAt(input, "order_id", r) : r \in {x \in rows : ~IsNull(CellAt(input, "order_id", x))}}
                nulls == {r \in rows : IsNull(CellAt(input, "order_id", r))}
            IN  s.orders = IF HasCol(input, "order_id")
                           THEN Cardinality(ids) + Cardinality(nulls)
                           ELSE Cardinality(rows)

(***************************************************************************)
(* parsers/amazon.normalize_columns                                        *)
(***************************************************************************)
BaseMap ==
    ("order-id" :> "order_id") @@
    ("order id" :> "order_id") @@
    ("amazon-order-id" :> "order_id") @@
    ("order_id" :> "order_id") @@
    ("transaction type" :> "transaction_type") @@
    ("transaction_type" :> "transaction_type") @@
    ("transaction-event-date" :> "date") @@
    ("posting-date" :> "date") @@
    ("invoice-date" :> "date") @@
    ("purchase-date" :> "date") @@
    ("shipment-date" :> "date") @@
    ("tax_calculation_date" :> "date") @@
    ("fulfillment-channel" :> "channel") @@
    ("fulfilment-channel" :> "channel") @@
    ("vat-collection-responsible" :> "vat_collector") @@
    ("vat collection responsibility" :> "vat_collector") @@
    ("tax_collection_responsibility" :> "vat_collector") @@
    ("tax_collection_role" :> "vat_collector") @@
    ("total_activity_value_amt_vat_excl" :> "net") @@
    ("total_activity_value_amt_vat_incl" :> "gross") @@
    ("total_activity_value_vat_amt" :> "vat_amount") @@
    ("price_of_items_vat_amt" :> "vat_amount_items") @@
    ("total_price_of_items_vat_amt" :> "vat_amount_items_total") @@
    ("ship_charge_vat_amt" :> "vat_amount_shipping") @@
    ("total_ship_charge_vat_amt" :> "vat_amount_shipping_total") @@
    ("gift_wrap_vat_amt" :> "vat_amount_giftwrap") @@
    ("total_gift_wrap_vat_amt" :> "vat_amount_giftwrap_total") @@
    ("tax-rate" :> "rate") @@
    ("tax rate" :> "rate") @@
    ("vat rate" :> "rate") @@
    ("vat-rate" :> "rate") @@
    ("vat_rate" :> "rate") @@
    ("price_of_items_vat_rate_percent" :> "rate") @@
    ("currency" :> "currency") @@
    ("sales_channel" :> "sales_channel")

CountryPriority ==
    <<"VAT_CALCULATION_IMPUTATION_COUNTRY", "ARRIVAL_COUNTRY", "SALE_ARRIVAL_COUNTRY",
      "SHIP_TO_COUNTRY", "MARKETPLACE_COUNTRY">>

\* str.lower on the column names the model uses that are not lower case already
LowerTable ==
    ("VAT_CALCULATION_IMPUTATION_COUNTRY" :> "vat_calculation_imputation_country") @@
    ("ARRIVAL_COUNTRY" :> "arrival_country") @@
    ("SALE_ARRIVAL_COUNTRY" :> "sale_arrival_country") @@
    ("SHIP_TO_COUNTRY" :> "ship_to_country") @@
    ("MARKETPLACE_COUNTRY" :> "marketplace_country") @@
    ("Order ID" :> "order id") @@
    ("TAX_COLLECTION_RESPONSIBILITY" :> "tax_collection_responsibility") @@
    ("VAT Rate" :> "vat rate") @@
    ("TRANSACTION_EVENT_ID" :> "transaction_event_id") @@
    ("ACTIVITY_TRANSACTION_ID" :> "activity_transaction_id") @@
    ("ORDER_ID" :> "order_id")

LowerName(n) == IF n \in DOMAIN LowerTable THEN LowerTable[n] ELSE n

\* k in lower_map
InLowerMap(df, k) == \E i \in 1..Len(df) : LowerName(df[i].name) = k

\* lower_map[k]: of the columns whose lower-cased name is k, the last
LowerMapAt(df, k) ==
    df[CHOOSE i \in 1..Len(df) :
         /\ LowerName(df[i].name) = k
         /\ \A j \in (i + 1)..Len(df) : LowerName(df[j].name) # k].name

\* df.rename(columns=mapping)
BaseRename(df) ==
    [i \in 1..Len(df) |->
        LET low == LowerName(df[i].name) IN
        IF low \in DOMAIN BaseMap /\ LowerMapAt(df, low) = df[i].name
        THEN Column(BaseMap[low], df[i].cells)
        ELSE df[i]]

CandidateOf(orig, raw) ==
    IF HasCol(orig, raw) THEN <<raw>>
    ELSE IF InLowerMap(orig, LowerName(raw)) THEN <<LowerMapAt(orig, LowerName(raw))>>
    ELSE <<>>

RECURSIVE CandidatesFrom(_, _)
CandidatesFrom(orig, i) ==
    IF i > Len(CountryPriority) THEN <<>>
    ELSE CandidateOf(orig, CountryPriority[i]) \o CandidatesFrom(orig, i + 1)

CountryCandidates(orig) == CandidatesFrom(orig, 1)

\* pd.notna(x) and str(x).strip() != ""
NonEmpty(c) == ~IsNull(c) /\ Strip(AsStr(c)) # <<>>

\* next((x for x in row if ...), None)
FirstNonEmpty(df, cands, r) ==
    LET hits == {j \in 1..Len(cands) : NonEmpty(GetCol(df, cands[j])[r])} IN
    IF hits = {} THEN None
    ELSE GetCol(df, cands[CHOOSE j \in hits : \A h \in hits : j <= h])[r]

\* .str[-2:]
LastTwo(s) == SubSeq(s, IF Len(s) > 2 THEN Len(s) - 1 ELSE 1, Len(s))

\* the marketplace fallback on one cell: .astype(str).str[-2:].str.upper()
MarketplaceSuffix(c) == Str(Upper(LastTwo(AsStr(c))))

BuildCountry(df, orig) ==
    LET cands == CountryCandidates(orig) IN
    IF cands # <<>>
    THEN SetCol(df, "country", [r \in 1..NRows(df) |-> FirstNonEmpty(df, cands, r)])
    ELSE IF HasCol(df, "marketplace")
    THEN SetCol(df, "country", MapCells(GetCol(df, "marketplace"), MarketplaceSuffix))
    ELSE df

S_UNKNOWN == <<"U", "N", "K", "N", "O", "W", "N">>

S_NAN == <<"N", "A", "N">>

S_NONE == <<"N", "O", "N", "E">>

S_AMAZON == <<"A", "M", "A", "Z", "O", "N">>

S_SELLER == <<"S", "E", "L", "L", "E", "R">>

\* .astype(str).str.strip().str.upper(), replace({"NAN", "NONE", ""} -> None),
\* fillna("UNKNOWN") on one cell
NormalizeCountryCell(c) ==
    LET s == Upper(Strip(AsStr(c))) IN
    IF s \in {S_NAN, S_NONE, <<>>} THEN Str(S_UNKNOWN) ELSE Str(s)

Constant(df, text) == [r \in 1..NRows(df) |-> Str(text)]

NormalizeCountry(df) ==
    IF HasCol(df, "country")
    THEN SetCol(df, "country", MapCells(GetCol(df, "country"), NormalizeCountryCell))
    ELSE SetCol(df, "country", Constant(df, S_UNKNOWN))

\* the literal variants replaced by AMAZON
DirectVariants ==
    { <<"A", "M", "A", "Z", "O", "N", " ", "E", "U", " ", "S", ".", "A", " ", "R", ".", "L", ".">>,
      <<"A", "M", "A", "Z", "O", "N", " ", "E", "U", " ", "S", "A", "R", "L">>,
      <<"A", "M", "A", "Z", "O", "N", " ", "S", "E", "R", "V", "I", "C", "E", "S", " ", "E", "U", "R", "O", "P", "E", " ", "S", "A", "R", "L">>,
      <<"M", "A", "R", "K", "E", "T", "P", "L", "A", "C", "E">>,
      <<"M", "A", "R", "K", "E", "T", "P", "L", "A", "C", "E", " ", "F", "A", "C", "I", "L", "I", "T", "A", "T", "O", "R">>,
      <<"A", "M", "A", "Z", "O", "N", " ", "-", " ", "M", "A", "R", "K", "E", "T", "P", "L", "A", "C", "E", " ", "F", "A", "C", "I", "L", "I", "T", "A", "T", "O", "R">>,
      <<"M", "P", "F">>,
      <<"P", "L", "A", "T", "F", "O", "R", "M">> }

\* the classification of one cell
ClassifyCollector(c) ==
    LET raw == Strip(Upper(AsStr(c)))
        vc  == IF raw \in DirectVariants THEN S_AMAZON ELSE raw
        kw  == IF MatchesPlatform(vc) THEN S_AMAZON ELSE vc
    IN  IF kw \in {S_NAN, <<>>} THEN Str(S_SELLER) ELSE Str(kw)

\* df[name] is a DataFrame, not a Series, when two columns carry the name
IsFrame(df, name) == ColCount(df, name) > 1

Then(res, Op(_)) == IF res.err # "" THEN res ELSE Op(res.df)

StandardizeCollector(df) ==
    IF HasCol(df, "vat_collector")
    THEN IF IsFrame(df, "vat_collector")
         THEN Raise("AttributeError: 'DataFrame' object has no attribute 'str'")
         ELSE Ok(SetCol(df, "vat_collector",
                        MapCells(GetCol(df, "vat_collector"), ClassifyCollector)))
    ELSE Ok(SetCol(df, "vat_collector", Constant(df, S_SELLER)))

\* .astype(str).str.upper().map({"AFN": "FBA", "MFN": "FBM"}).fillna("UNKNOWN")
ChannelOf(c) ==
    LET s == Upper(AsStr(c)) IN
    IF s = <<"A", "F", "N">> THEN Str(<<"F", "B", "A">>)
    ELSE IF s = <<"M", "F", "N">> THEN Str(<<"F", "B", "M">>)
    ELSE Str(S_UNKNOWN)

InferChannel(df) ==
    IF HasCol(df, "sales_channel") /\ ~HasCol(df, "channel")
    THEN IF IsFrame(df, "sales_channel")
         THEN Raise("AttributeError: 'DataFrame' object has no attribute 'str'")
         ELSE Ok(SetCol(df, "channel", MapCells(GetCol(df, "sales_channel"), ChannelOf)))
    ELSE IF ~HasCol(df, "channel")
    THEN Ok(SetCol(df, "channel", Constant(df, S_UNKNOWN)))
    ELSE Ok(df)

\* a date written dd-mm, read day first; as dateutil does, a text whose second field
\* cannot be a month is read month first
ParseDayFirst(s) ==
    IF Len(s) = 5 /\ s[3] = "-" /\ AllDigits(SubSeq(s, 1, 2)) /\ AllDigits(SubSeq(s, 4, 5))
    THEN LET a == NatVal(SubSeq(s, 1, 2))
             b == NatVal(SubSeq(s, 4, 5))
         IN  IF b \in 1..12 /\ a \in 1..31 THEN Date(100 * b + a)
             ELSE IF a \in 1..12 /\ b \in 1..31 THEN Date(100 * a + b)
             ELSE NaN
    ELSE NaN

\* pd.to_datetime(errors="coerce", dayfirst=True) on one cell
ToDatetime(c) ==
    IF c.k = "date" THEN c
    ELSE IF c.k = "str" THEN ParseDayFirst(c.s)
    ELSE NaN

ParseDates(df) ==
    IF HasCol(df, "date")
    THEN IF IsFrame(df, "date")
         THEN Raise("ValueError: cannot assemble with duplicate keys")
         ELSE Ok(SetCol(df, "date", MapCells(GetCol(df, "date"), ToDatetime)))
    ELSE Ok(df)

\* the length of the run of digits of s that starts at position i
RECURSIVE DigitRun(_, _)
DigitRun(s, i) == IF i <= Len(s) /\ IsDigit(s[i]) THEN 1 + DigitRun(s, i + 1) ELSE 0

\* the leftmost match of [0-9]*\.?[0-9]+ in s, <<>> when there is none
NumberToken(s) ==
    LET starts == {i \in 1..Len(s) :
                     IsDigit(s[i]) \/ (s[i] = "." /\ i < Len(s) /\ IsDigit(s[i + 1]))}
    IN  IF starts = {} THEN <<>>
        ELSE LET i  == CHOOSE x \in starts : \A y \in starts : x <= y
                 d1 == DigitRun(s, i)
                 j  == i + d1
                 d2 == IF j < Len(s) /\ s[j] = "." THEN DigitRun(s, j + 1) ELSE 0
             IN  SubSeq(s, i, IF d2 > 0 THEN j + d2 ELSE j - 1)

\* _coerce_rate_col on one cell: a fraction in [0, 1] is a percentage divided by 100
CoerceRate(c) ==
    LET tok == NumberToken(Strip(AsStr(c))) IN
    IF tok = <<>> THEN NaN
    ELSE LET x == DecimalVal(tok) IN
         IF x >= 0 /\ x <= 100 THEN Num(x * 100) ELSE Num(x)

CoerceRates(df) ==
    IF HasCol(df, "rate")
    THEN IF IsFrame(df, "rate")
         THEN Raise("AttributeError: 'DataFrame' object has no attribute 'str'")
         ELSE Ok(SetCol(df, "rate", MapCells(GetCol(df, "rate"), CoerceRate)))
    ELSE Ok(df)

NumericCols ==
    <<"net", "gross", "vat_amount", "vat_amount_items", "vat_amount_items_total",
      "vat_amount_shipping", "vat_amount_shipping_total", "vat_amount_giftwrap",
      "vat_amount_giftwrap_total">>

RECURSIVE NumericFrom(_, _)
NumericFrom(df, i) ==
    IF i > Len(NumericCols) THEN Ok(df)
    ELSE LET col == NumericCols[i] IN
         IF ~HasCol(df, col) THEN NumericFrom(df, i + 1)
         ELSE IF IsFrame(df, col)
         THEN Raise("TypeError: arg must be a list, tuple, 1-d array, or Series")
         ELSE NumericFrom(SetCol(df, col, MapCells(GetCol(df, col), ToNumeric)), i + 1)

CoerceNumeric(df) == NumericFrom(df, 1)

OrderIdFallbacks == <<"TRANSACTION_EVENT_ID", "ACTIVITY_TRANSACTION_ID", "ORDER_ID">>

OrderIdFallback(df, orig) ==
    LET hits == {i \in 1..Len(OrderIdFallbacks) : HasCol(orig, OrderIdFallbacks[i])} IN
    IF HasCol(df, "order_id") \/ hits = {} THEN Ok(df)
    ELSE Ok(SetCol(df, "order_id",
                   GetCol(df, OrderIdFallbacks[CHOOSE i \in hits : \A h \in hits : i <= h])))

NormalizeColumns(orig) ==
    LET d1 == NormalizeCountry(BuildCountry(BaseRename(orig), orig))
        r3 == StandardizeCollector(d1)
        r4 == Then(r3, InferChannel)
        r5 == Then(r4, ParseDates)
        r6 == Then(r5, CoerceRates)
        r7 == Then(r6, CoerceNumeric)
    IN  IF r7.err # "" THEN r7 ELSE OrderIdFallback(r7.df, orig)

(***************************************************************************)
(* Inputs of normalize_columns: raw reports with pairwise distinct column  *)
(* names, at most MaxCols of the names below, in this order.               *)
(***************************************************************************)
MaxCols == 3

NormRows == 1

RawCols ==
    <<"order-id",
      "Order ID",
      "posting-date",
      "purchase-date",
      "VAT_CALCULATION_IMPUTATION_COUNTRY",
      "ship_to_country",
      "marketplace",
      "country",
      "TAX_COLLECTION_RESPONSIBILITY",
      "vat_collector",
      "sales_channel",
      "fulfillment-channel",
      "tax-rate",
      "VAT Rate",
      "total_activity_value_amt_vat_excl",
      "net",
      "TRANSACTION_EVENT_ID">>

RawCells(name) ==
    CASE name = "order-id" ->
           {Str(<<"A">>)}
      [] name = "Order ID" ->
           {Str(<<"B">>)}
      [] name = "posting-date" ->
           {Str(<<"0", "2", "-", "0", "1">>), Str(<<"x">>)}
      [] name = "purchase-date" ->
           {NaN}
      [] name = "VAT_CALCULATION_IMPUTATION_COUNTRY" ->
           {Str(<<" ", "d", "e">>), Str(<<>>), Str(<<"n", "a", "n">>), NaN, NA}
      [] name = "ship_to_country" ->
           {Str(<<"f", "r">>), None}
      [] name = "marketplace" ->
           {Str(<<"A", "m", "a", "z", "o", "n", ".", "d", "e">>), Str(<<>>), NaN, None, NA}
      [] name = "country" ->
           {Str(<<"i", "t">>), NaN}
      [] name = "TAX_COLLECTION_RESPONSIBILITY" ->
           {Str(<<"M", "a", "r", "k", "e", "t", "p", "l", "a", "c", "e", " ", "F", "a", "c", "i", "l", "i", "t", "a", "t", "o", "r">>), Str(<<" ", "m", "p", "f", " ">>), Str(<<"S", "e", "l", "l", "e", "r">>), Str(<<>>), NaN, None, NA}
      [] name = "vat_collector" ->
           {Str(<<"S", "e", "l", "l", "e", "r">>)}
      [] name = "sales_channel" ->
           {Str(<<"a", "f", "n">>), Str(<<"x">>)}
      [] name = "fulfillment-channel" ->
           {Str(<<"A", "F", "N">>)}
      [] name = "tax-rate" ->
           {Str(<<"1", "9", "%">>), Str(<<"0", ".", "1", "9">>), Num(1900), Str(<<"x">>)}
      [] name = "VAT Rate" ->
           {Num(700)}
      [] name = "total_activity_value_amt_vat_excl" ->
           {Str(<<"2", "5">>), Num(10000)}
      [] name = "net" ->
           {NaN}
      [] name = "TRANSACTION_EVENT_ID" ->
           {Str(<<"T">>)}

\* the raw datasets over the columns RawCols[i], RawCols[i + 1], ... with at most k columns
RECURSIVE RawDatasets(_, _)
RawDatasets(i, k) ==
    IF i > Len(RawCols) \/ k = 0 THEN {<<>>}
    ELSE RawDatasets(i + 1, k)
           \cup {<<Column(RawCols[i], cells)>> \o d :
                   cells \in [1..NormRows -> RawCells(RawCols[i])],
                   d \in RawDatasets(i + 1, k - 1)}

InitNormalize ==
    /\ pc = "normalize"
    /\ input \in RawDatasets(1, MaxCols)
    /\ result = NoResult
    /\ result2 = NoResult

Normalize ==
    /\ pc = "normalize"
    /\ result' = NormalizeColumns(input)
    /\ pc' = "normalized"
    /\ UNCHANGED <<input, result2>>

NextNormalize == Normalize

SpecNormalize == InitNormalize /\ [][NextNormalize]_vars

(***************************************************************************)
(* Claims about normalize_columns.                                         *)
(***************************************************************************)
Normalized == pc = "normalized" /\ result.err = ""

\* what a source cell yields: its trimmed, upper-cased text, nothing for a null
Yield(c) == IF IsNull(c) THEN <<>> ELSE Upper(Strip(AsStr(c)))

\* the value the country sources of a row yield, <<>> for none
CountrySource(r) ==
    LET cands == CountryCandidates(input)
        hits  == {j \in 1..Len(cands) : Yield(GetCol(input, cands[j])[r]) # <<>>}
    IN  IF cands # <<>>
        THEN IF hits = {} THEN <<>>
             ELSE Yield(GetCol(input, cands[CHOOSE j \in hits : \A h \in hits : j <= h])[r])
        ELSE IF HasCol(input, "marketplace")
        THEN LastTwo(Yield(GetCol(input, "marketplace")[r]))
        ELSE <<>>

\* C6: after normalize_columns every row has a country: the upper-cased, trimmed first
\* non-empty, non-null value of the present candidate columns in priority order; with no
\* candidate column the 2-letter code from the end of the marketplace field; and
\* "UNKNOWN" wherever these sources yield no value (null, empty, "NAN" or "NONE").
\* Stated for the reports that bring no column named country of their own.
C6_CountryResolved ==
    (Normalized /\ ~HasCol(input, "country")) =>
        /\ ColCount(result.df, "country") = 1
        /\ \A r \in 1..NRows(input) :
             GetCol(result.df, "country")[r] =
                 (IF CountrySource(r) \in {<<>>, S_NAN, S_NONE}
                  THEN Str(S_UNKNOWN)
                  ELSE Str(CountrySource(r)))

\* the raw columns that are the tax collector's: vat_collector itself and its aliases
CollectorSources ==
    {i \in 1..Len(input) :
        \/ input[i].name = "vat_collector"
        \/ /\ LowerName(input[i].name) \in DOMAIN BaseMap
           /\ BaseMap[LowerName(input[i].name)] = "vat_collector"}

\* C7: normalize_columns classifies the collector of every row: a value that, upper-cased
\* and trimmed, contains one of the platform keywords becomes "AMAZON"; an empty or null
\* value, and every row of a dataset with no collector column, becomes "SELLER"; every
\* other value is left as its upper-cased, trimmed self.
C7_CollectorClassified ==
    (Normalized /\ Cardinality(CollectorSources) <= 1) =>
        \A r \in 1..NRows(input) :
            LET out == GetCol(result.df, "vat_collector")[r] IN
            IF CollectorSources = {} THEN out = Str(S_SELLER)
            ELSE LET c == input[CHOOSE i \in CollectorSources : TRUE].cells[r] IN
                 IF Yield(c) = <<>> THEN out = Str(S_SELLER)
                 ELSE IF MatchesPlatform(Yield(c)) THEN out = Str(S_AMAZON)
                 ELSE out = Str(Yield(c))

\* C8: the output of normalize_columns on a raw dataset with pairwise distinct column
\* names has no two columns with the same name.
C8_NoDuplicateColumns ==
    Normalized =>
        \A i, j \in 1..Len(result.df) : i # j => result.df[i].name # result.df[j].name

\* C9: normalize_columns never raises, whatever the column names and the cell values.
C9_NeverRaises == pc = "normalized" => result.err = ""

(***************************************************************************)
(* vat_calculator.apply_country_rates                                      *)
(***************************************************************************)
\* {k.upper(): v for k, v in rates.items()}
RatesMap(rates) ==
    [k \in {Upper(x) : x \in DOMAIN rates} |->
        rates[CHOOSE x \in DOMAIN rates : Upper(x) = k]]

\* df["country"].map(rates_map) on one cell
RateOf(c, rates) ==
    IF c.k = "str" /\ c.s \in DOMAIN RatesMap(rates) THEN Num(RatesMap(rates)[c.s]) ELSE NaN

\* apply_country_rates that leaves a dataset without a rate column as it is
ApplyCountryRatesNoFill(df, rates) ==
    LET d1 == DedupeCountry(df)
        d2 == IF HasCol(d1, "country") THEN d1
              ELSE SetCol(d1, "country", Constant(d1, S_UNKNOWN))
        d3 == SetCol(d2, "country",
                     MapCells(GetCol(d2, "country"), LAMBDA c : Str(Upper(AsStr(c)))))
    IN  IF ~HasCol(d3, "rate") THEN d3
        ELSE SetCol(d3, "rate",
                    [r \in 1..NRows(d3) |->
                        LET x == ToNumeric(GetCol(d3, "rate")[r]) IN
                        IF IsNull(x) THEN RateOf(GetCol(d3, "country")[r], rates) ELSE x])

ApplyCountryRates(df, rates) ==
    LET d1 == DedupeCountry(df)
        d2 == IF HasCol(d1, "country") THEN d1
              ELSE SetCol(d1, "country", Constant(d1, S_UNKNOWN))
        d3 == SetCol(d2, "country",
                     MapCells(GetCol(d2, "country"), LAMBDA c : Str(Upper(AsStr(c)))))
    IN  IF ~HasCol(d3, "rate")
        THEN SetCol(d3, "rate",
                    [r \in 1..NRows(d3) |-> RateOf(GetCol(d3, "country")[r], rates)])
        ELSE SetCol(d3, "rate",
                    [r \in 1..NRows(d3) |->
                        LET x == ToNumeric(GetCol(d3, "rate")[r]) IN
                        IF IsNull(x) THEN RateOf(GetCol(d3, "country")[r], rates) ELSE x])

(***************************************************************************)
(* app.py, the main pipeline: normalize_columns, apply_country_rates,      *)
(* derive_net_gross, the UK filter, the period filter, country_summary.    *)
(***************************************************************************)
\* df[mask]: the rows that satisfy keep, in order
SelectRows(df, keep(_)) ==
    LET idx == SelectSeq([r \in 1..NRows(df) |-> r], keep) IN
    [i \in 1..Len(df) |->
        Column(df[i].name, [j \in 1..Len(idx) |-> df[i].cells[idx[j]]])]

S_UK == <<"U", "K">>

\* df[df["country"] != "UK"] when hide_uk is configured
HideUKRows(df, hide) ==
    IF hide /\ HasCol(df, "country")
    THEN SelectRows(df, LAMBDA r : GetCol(df, "country")[r] # Str(S_UK))
    ELSE df

\* the period filter: a pair of dates keeps the rows dated from the first to the second,
\* both included; a comparison with NaT is false
PeriodRows(df, period) ==
    IF HasCol(df, "date") /\ Len(period) = 2
    THEN SelectRows(df, LAMBDA r :
             LET d == GetCol(df, "date")[r] IN
             d.k = "date" /\ d.n >= period[1] /\ d.n < period[2] + 1)
    ELSE df

\* the standard rates of the configuration, in hundredths of a percent
Rates == (<<"D", "E">> :> 1900) @@ (<<"f", "r">> :> 2000) @@ (<<"U", "K">> :> 2000)

\* what st.date_input gives: a pair of dates (month * 100 + day), or a single date while
\* the range is being picked
Periods == {<<101, 131>>, <<201, 228>>, <<101>>}

PipeRows == 2

PipeMaxCols == 3

PipeCols ==
    <<"total_activity_value_amt_vat_excl",
      "total_activity_value_amt_vat_incl",
      "total_activity_value_vat_amt",
      "tax-rate",
      "ship_to_country",
      "marketplace",
      "posting-date",
      "collector",
      "order-id",
      "Order ID">>

PipeCells(name) ==
    CASE name = "total_activity_value_amt_vat_excl" ->
           {Num(10000)}
      [] name = "total_activity_value_amt_vat_incl" ->
           {Num(12500)}
      [] name = "total_activity_value_vat_amt" ->
           {Num(2500), NaN}
      [] name = "tax-rate" ->
           {Str(<<"1", "9", "%">>)}
      [] name = "ship_to_country" ->
           {Str(<<"f", "r">>), Str(<<"u", "k">>)}
      [] name = "marketplace" ->
           {Str(<<"A", "m", "a", "z", "o", "n", ".", "d", "e">>)}
      [] name = "posting-date" ->
           {Str(<<"0", "2", "-", "0", "1">>), Str(<<"x">>)}
      [] name = "collector" ->
           {Str(<<"a", "m", "a", "z", "o", "n">>)}
      [] name = "order-id" ->
           {Str(<<"A">>)}
      [] name = "Order ID" ->
           {Str(<<"B">>)}

\* the reports over the columns PipeCols[i], PipeCols[i + 1], ... with at most k of them
RECURSIVE PipeDatasets(_, _)
PipeDatasets(i, k) ==
    IF i > Len(PipeCols) \/ k = 0 THEN {<<>>}
    ELSE PipeDatasets(i + 1, k)
           \cup {<<Column(PipeCols[i], cells)>> \o d :
                   cells \in [1..PipeRows -> PipeCells(PipeCols[i])],
                   d \in PipeDatasets(i + 1, k - 1)}

\* df_raw["__source_file__"] = upl.name
WithSourceFile(df) ==
    Append(df, Column("__source_file__", [r \in 1..PipeRows |-> Str(<<"f">>)]))

NoDuplicateNames(df) == \A i, j \in 1..Len(df) : i # j => df[i].name # df[j].name

\* the uploads that normalize without duplicate column names
InitPipeline ==
    /\ pc = "normalize"
    /\ input \in {x \in {WithSourceFile(d) : d \in PipeDatasets(1, PipeMaxCols)} :
                      LET norm == NormalizeColumns(x) IN
                      norm.err = "" /\ NoDuplicateNames(norm.df)}
    /\ result = NoResult
    /\ result2 = NoResult

ApplyRates ==
    /\ pc = "normalized"
    /\ result.err = ""
    /\ result' = Ok(ApplyCountryRates(result.df, Rates))
    /\ pc' = "rated"
    /\ UNCHANGED <<input, result2>>

DeriveAmounts ==
    /\ pc = "rated"
    /\ result' = Ok(DeriveNetGross(result.df))
    /\ pc' = "derived"
    /\ UNCHANGED <<input, result2>>

HideUK ==
    /\ pc = "derived"
    /\ \E hide \in BOOLEAN : result' = Ok(HideUKRows(result.df, hide))
    /\ pc' = "uk hidden"
    /\ UNCHANGED <<input, result2>>

PeriodFilter ==
    /\ pc = "uk hidden"
    /\ \E period \in Periods : result' = Ok(PeriodRows(result.df, period))
    /\ pc' = "filtered"
    /\ UNCHANGED <<input, result2>>

SummariseAll ==
    /\ pc = "filtered"
    /\ result2' \in CountrySummary(result.df)
    /\ pc' = "reported"
    /\ UNCHANGED <<input, result>>

NextPipeline ==
    \/ Normalize
    \/ ApplyRates
    \/ DeriveAmounts
    \/ HideUK
    \/ PeriodFilter
    \/ SummariseAll

SpecPipeline == InitPipeline /\ [][NextPipeline]_vars

(***************************************************************************)
(* Claims about the pipeline.                                              *)
(***************************************************************************)
\* the normalized dataset has none of the columns net, gross and vat_amount
NoAmountColumn ==
    LET norm == NormalizeColumns(input).df IN
    ~HasCol(norm, "net") /\ ~HasCol(norm, "gross") /\ ~HasCol(norm, "vat_amount")

\* C11: when the stages run in pipeline order on a raw dataset that normalizes without
\* duplicate column names, country_summary never raises its missing-country error, it
\* raises its missing-vat_amount error exactly when the normalized dataset has none of
\* the columns net, gross and vat_amount, and in every other case it returns a summary.
C11_PipelineSummaryErrors ==
    pc = "reported" =>
        /\ result2.err # "KeyError: country"
        /\ (result2.err = "KeyError: vat_amount") <=> NoAmountColumn
        /\ result2.err \in {"", "KeyError: vat_amount"}

\* a report with a net amount and neither a VAT amount nor a rate of its own is summarised:
\* the rate comes from the country, the VAT amount from the rate
C11_Witness ==
    /\ pc = "reported"
    /\ result2.err = ""
    /\ result2.df # <<>>
    /\ HasCol(NormalizeColumns(input).df, "net")
    /\ ~HasCol(NormalizeColumns(input).df, "vat_amount")
    /\ ~HasCol(NormalizeColumns(input).df, "rate")

====
